---- MODULE Spec2Model ----
(***************************************************************************)
(* A model of index.mjs, the directory-batch image converter: parseArgs,   *)
(* listImageFiles, processImage and main.  Strings are sequences of        *)
(* one-character strings, so that startsWith, split, trim, toLowerCase,    *)
(* Number, extname and basename are computed as the JavaScript computes    *)
(* them.  The codec (sharp) is outside the program: a source file carries  *)
(* what the codec answers for it (its metadata width, whether it decodes,  *)
(* the format whose encoding fails).                                       *)
(***************************************************************************)
EXTENDS Integers, Sequences, FiniteSets, TLC

VARIABLES
  argv,        \* process.argv
  dirExists,   \* whether IMAGES_DIR exists
  outDir,      \* whether OUTPUT_DIR exists
  entries,     \* the direct entries of IMAGES_DIR, in readdir order
  fs,          \* the files of OUTPUT_DIR: output name -> content or Absent
  pc,          \* the position of main
  opts,        \* main: opts
  files,       \* main: files
  fi,          \* main: index of the file of the for loop at line 181
  work,        \* processImage: work
  outputs,     \* processImage: outputs
  oi,          \* processImage: index of the for loop at line 123
  results,     \* processImage: results
  allResults,  \* main: allResults
  warnings,    \* console.warn lines (the tokens warned about, with the file)
  errors,      \* console.error lines (the names of the files that failed)
  lines,       \* the result lines printed at line 200
  summary,     \* the counts of the line printed at line 203
  exitCode,    \* the exit code of the process, Running while it runs
  writeLog,    \* history: the output names toFile wrote during this run
  statusLog,   \* history: every ConversionResult pushed during this run
  fsStart,     \* history: fs when this run started
  run,         \* history: the number of this run
  prevLog      \* history: statusLog at the end of the run before this one

vars == <<argv, dirExists, outDir, entries, fs, pc, opts, files, fi, work,
          outputs, oi, results, allResults, warnings, errors, lines, summary,
          exitCode, writeLog, statusLog, fsStart, run, prevLog>>

\* values of their own, of the kind of the values they stand in for
None == [none |-> TRUE]
Absent == [absent |-> TRUE]
Undefined == [undefined |-> TRUE]
NoFormat == <<>>
Running == "running"

-----------------------------------------------------------------------------
(* Strings *)

ArgDryRun == <<"-", "-", "d", "r", "y", "-", "r", "u", "n">>
ArgOverwrite == <<"-", "-", "o", "v", "e", "r", "w", "r", "i", "t", "e">>
PrefMaxWidth == <<"-", "-", "m", "a", "x", "-", "w", "i", "d", "t", "h", "=">>
PrefQuality == <<"-", "-", "q", "u", "a", "l", "i", "t", "y", "=">>
PrefFormats == <<"-", "-", "f", "o", "r", "m", "a", "t", "s", "=">>
TokWebp == <<"w", "e", "b", "p">>
TokJpeg == <<"j", "p", "e", "g">>
TokJpg == <<"j", "p", "g">>
TokPng == <<"p", "n", "g">>
ExtWebp == <<".", "w", "e", "b", "p">>
ExtJpg == <<".", "j", "p", "g">>
ExtPng == <<".", "p", "n", "g">>
ExtJpeg == <<".", "j", "p", "e", "g">>
ExtTif == <<".", "t", "i", "f">>
ExtTiff == <<".", "t", "i", "f", "f">>
ExtGif == <<".", "g", "i", "f">>
OUTPUT_SUBDIR == <<"f", "o", "r", "m", "a", "t", "t", "e", "d">>
NodePath == <<"n", "o", "d", "e">>
ScriptPath == <<"i", "n", "d", "e", "x", ".", "m", "j", "s">>

SUPPORTED_EXTS == {ExtJpg, ExtJpeg, ExtPng, ExtWebp, ExtTif, ExtTiff, ExtGif}

\* String.prototype.startsWith
StartsWith(s, p) == Len(s) >= Len(p) /\ SubSeq(s, 1, Len(p)) = p

\* String.prototype.split(sep), sep one character
RECURSIVE Split(_, _)
Split(s, sep) ==
  IF \E i \in 1..Len(s) : s[i] = sep
  THEN LET i == CHOOSE k \in 1..Len(s) :
                  s[k] = sep /\ \A j \in 1..(k - 1) : s[j] # sep
       IN  <<SubSeq(s, 1, i - 1)>> \o Split(SubSeq(s, i + 1, Len(s)), sep)
  ELSE <<s>>

WhiteSpace == {" "}

\* String.prototype.trim
RECURSIVE Trim(_)
Trim(s) ==
  IF s = <<>> THEN s
  ELSE IF s[1] \in WhiteSpace THEN Trim(Tail(s))
  ELSE IF s[Len(s)] \in WhiteSpace THEN Trim(SubSeq(s, 1, Len(s) - 1))
  ELSE s

UpperCase == <<"A", "B", "C", "D", "E", "F", "G", "H", "I", "J", "K", "L", "M",
               "N", "O", "P", "Q", "R", "S", "T", "U", "V", "W", "X", "Y", "Z">>
LowerCase == <<"a", "b", "c", "d", "e", "f", "g", "h", "i", "j", "k", "l", "m",
               "n", "o", "p", "q", "r", "s", "t", "u", "v", "w", "x", "y", "z">>

LowerOf(c) ==
  IF \E i \in 1..Len(UpperCase) : UpperCase[i] = c
  THEN LowerCase[CHOOSE i \in 1..Len(UpperCase) : UpperCase[i] = c]
  ELSE c

\* String.prototype.toLowerCase
ToLowerCase(s) == [i \in 1..Len(s) |-> LowerOf(s[i])]

-----------------------------------------------------------------------------
(* Numbers: a JavaScript number is NaN or a decimal fraction num / den,    *)
(* den a power of ten, in lowest decimal terms.                            *)

NaN == [num |-> 0, den |-> 0]
Num(n) == [num |-> n, den |-> 1]

RECURSIVE Normalize(_)
Normalize(x) ==
  IF x.den > 1 /\ x.num % 10 = 0
  THEN Normalize([num |-> x.num \div 10, den |-> x.den \div 10])
  ELSE x

Digits == <<"0", "1", "2", "3", "4", "5", "6", "7", "8", "9">>
IsDigit(c) == \E i \in 1..10 : Digits[i] = c
DigitVal(c) == (CHOOSE i \in 1..10 : Digits[i] = c) - 1

RECURSIVE DecVal(_)
DecVal(ds) ==
  IF ds = <<>> THEN 0
  ELSE 10 * DecVal(SubSeq(ds, 1, Len(ds) - 1)) + DigitVal(ds[Len(ds)])

RECURSIVE Pow10(_)
Pow10(n) == IF n = 0 THEN 1 ELSE 10 * Pow10(n - 1)

\* Number(string): white space trimmed, the empty string is 0, an optional
\* sign, decimal digits with at most one point; anything else is NaN.
Number(s) ==
  LET t    == Trim(s)
      sgn  == t # <<>> /\ t[1] \in {"+", "-"}
      body == IF sgn THEN Tail(t) ELSE t
      dots == {i \in 1..Len(body) : body[i] = "."}
      ds   == SelectSeq(body, IsDigit)
      ok   == /\ \A i \in 1..Len(body) : IsDigit(body[i]) \/ body[i] = "."
              /\ Cardinality(dots) <= 1
              /\ ds # <<>>
      scale == IF dots = {} THEN 0 ELSE Len(body) - (CHOOSE i \in dots : TRUE)
      mant == IF sgn /\ t[1] = "-" THEN 0 - DecVal(ds) ELSE DecVal(ds)
  IN  IF t = <<>> THEN Num(0)
      ELSE IF ok THEN Normalize([num |-> mant, den |-> Pow10(scale)])
      ELSE NaN

\* the truthiness of a number: neither NaN nor (plus or minus) zero
Truthy(x) == x # NaN /\ x.num # 0

\* a > b on numbers; false when either is NaN
Gt(a, b) == a # NaN /\ b # NaN /\ a.num * b.den > b.num * a.den

IsInteger(x) == x # NaN /\ x.den = 1

-----------------------------------------------------------------------------
(* parseArgs *)

DefaultMaxWidth == 1600
DefaultQuality == 80

DefaultOpts ==
  [maxWidth |-> Num(DefaultMaxWidth), quality |-> Num(DefaultQuality),
   formats |-> <<TokWebp, TokJpeg>>, dryRun |-> FALSE, overwrite |-> FALSE]

\* arg.split("=")[1]
ValueOf(arg) == Split(arg, "=")[2]

NonEmpty(s) == s # <<>>

\* v.split(",").map((s) => s.trim().toLowerCase()).filter(Boolean)
FormatList(v) ==
  LET parts == Split(v, ",")
      mapped == [i \in 1..Len(parts) |-> ToLowerCase(Trim(parts[i]))]
  IN  SelectSeq(mapped, NonEmpty)

\* the body of the loop of parseArgs
ParseArg(o, arg) ==
  IF arg = ArgDryRun THEN [o EXCEPT !.dryRun = TRUE]
  ELSE IF arg = ArgOverwrite THEN [o EXCEPT !.overwrite = TRUE]
  ELSE IF StartsWith(arg, PrefMaxWidth)
    THEN [o EXCEPT !.maxWidth =
            IF Truthy(Number(ValueOf(arg))) THEN Number(ValueOf(arg)) ELSE @]
  ELSE IF StartsWith(arg, PrefQuality)
    THEN [o EXCEPT !.quality =
            IF Truthy(Number(ValueOf(arg))) THEN Number(ValueOf(arg)) ELSE @]
  ELSE IF StartsWith(arg, PrefFormats)
    THEN IF ValueOf(arg) # <<>>
         THEN [o EXCEPT !.formats = FormatList(ValueOf(arg))]
         ELSE o
  ELSE o

RECURSIVE ParseLoop(_, _)
ParseLoop(o, args) ==
  IF args = <<>> THEN o ELSE ParseLoop(ParseArg(o, Head(args)), Tail(args))

\* argv.slice(2)
Slice2(a) == SubSeq(a, 3, Len(a))

parseArgs(a) == ParseLoop(DefaultOpts, Slice2(a))

-----------------------------------------------------------------------------
(* The argument lists parseArgs is checked on *)

MaxValLen == 3

RECURSIVE StringsUpTo(_, _)
StringsUpTo(alphabet, n) ==
  IF n = 0 THEN {<<>>}
  ELSE LET shorter == StringsUpTo(alphabet, n - 1)
       IN  shorter \cup {Append(s, c) : s \in shorter, c \in alphabet}

NumberChars == {"0", "2", "5", "-", ".", " ", "x"}
FormatChars == {"p", "G", ",", " "}

ArgJunk == <<"-", "v">>

LastArgs ==
  {ArgDryRun, ArgOverwrite, ArgJunk}
    \cup {PrefMaxWidth \o v : v \in StringsUpTo(NumberChars, MaxValLen)}
    \cup {PrefQuality \o v : v \in StringsUpTo(NumberChars, MaxValLen)}
    \cup {PrefFormats \o v : v \in StringsUpTo(FormatChars, MaxValLen)}

FirstArgs ==
  {ArgDryRun, PrefMaxWidth \o <<"5">>, PrefQuality \o <<"5">>,
   PrefFormats \o TokPng}

ArgLists ==
  {<<>>} \cup {<<a>> : a \in LastArgs}
         \cup {<<a, b>> : a \in FirstArgs, b \in LastArgs}

InitArgs ==
  /\ argv \in {<<NodePath, ScriptPath>> \o a : a \in ArgLists}
  /\ dirExists = TRUE
  /\ outDir = TRUE
  /\ entries = <<>>
  /\ fs = <<>>
  /\ pc = "start"
  /\ opts = None
  /\ files = <<>>
  /\ fi = 1
  /\ work = None
  /\ outputs = <<>>
  /\ oi = 1
  /\ results = <<>>
  /\ allResults = <<>>
  /\ warnings = <<>>
  /\ errors = <<>>
  /\ lines = <<>>
  /\ summary = None
  /\ exitCode = Running
  /\ writeLog = <<>>
  /\ statusLog = <<>>
  /\ fsStart = <<>>
  /\ run = 1
  /\ prevLog = <<>>

\* line 160: const opts = parseArgs(process.argv)
ResolveOptions ==
  /\ pc = "start"
  /\ opts' = parseArgs(argv)
  /\ pc' = "access"
  /\ UNCHANGED <<argv, dirExists, outDir, entries, fs, files, fi, work,
                 outputs, oi, results, allResults, warnings, errors, lines,
                 summary, exitCode, writeLog, statusLog, fsStart, run,
                 prevLog>>

NextArgs == ResolveOptions

SpecArgs == InitArgs /\ [][NextArgs]_vars

-----------------------------------------------------------------------------
(* Paths *)

EndsWith(s, e) == Len(s) >= Len(e) /\ SubSeq(s, Len(s) - Len(e) + 1, Len(s)) = e

\* path.extname: from the last point of the name, unless that point is its
\* first character
ExtName(name) ==
  LET dots == {i \in 2..Len(name) : name[i] = "."}
  IN  IF dots = {} THEN <<>>
      ELSE SubSeq(name, CHOOSE i \in dots : \A j \in dots : j <= i, Len(name))

\* path.basename(p, ext)
BaseName(name, ext) ==
  IF ext # <<>> /\ ext # name /\ EndsWith(name, ext)
  THEN SubSeq(name, 1, Len(name) - Len(ext))
  ELSE name

-----------------------------------------------------------------------------
(* listImageFiles *)

isImageFile(name) == ToLowerCase(ExtName(name)) \in SUPPORTED_EXTS

IsCandidate(e) == ~e.isDir /\ isImageFile(e.name)

listImageFiles(dir) == SelectSeq(dir, IsCandidate)

-----------------------------------------------------------------------------
(* processImage *)

\* a resize also of the images exactly maxWidth wide
ShouldResizeAtLeast(meta, o) ==
  meta.width # Undefined /\ ~Gt(o.maxWidth, meta.width)

\* lines 82-83
ShouldResize(meta, o) == meta.width # Undefined /\ Gt(meta.width, o.maxWidth)

\* lines 85-92
Pipeline(meta, o) ==
  IF ShouldResize(meta, o)
  THEN [resized |-> TRUE,
        options |-> [width |-> o.maxWidth, withoutEnlargement |-> TRUE,
                     fit |-> "inside"]]
  ELSE [resized |-> FALSE, options |-> None]

\* the alias 'jpg' left out of the jpeg branch
OutputsOfTokenNoAlias(nameNoExt, fmt) ==
  IF fmt = TokWebp THEN <<[fmt |-> TokWebp, outFile |-> nameNoExt \o ExtWebp]>>
  ELSE IF fmt = TokJpeg
    THEN <<[fmt |-> TokJpeg, outFile |-> nameNoExt \o ExtJpg]>>
  ELSE IF fmt = TokPng THEN <<[fmt |-> TokPng, outFile |-> nameNoExt \o ExtPng]>>
  ELSE <<>>

\* lines 96-119: the OutputSpecs one token adds to outputs
OutputsOfToken(nameNoExt, fmt) ==
  IF fmt = TokWebp THEN <<[fmt |-> TokWebp, outFile |-> nameNoExt \o ExtWebp]>>
  ELSE IF fmt = TokJpeg \/ fmt = TokJpg
    THEN <<[fmt |-> TokJpeg, outFile |-> nameNoExt \o ExtJpg]>>
  ELSE IF fmt = TokPng THEN <<[fmt |-> TokPng, outFile |-> nameNoExt \o ExtPng]>>
  ELSE <<>>

\* lines 117-118: the warning one token adds
WarningsOfToken(src, fmt) ==
  IF fmt \in {TokWebp, TokJpeg, TokJpg, TokPng} THEN <<>>
  ELSE <<[src |-> src, fmt |-> fmt]>>

RECURSIVE BuildOutputs(_, _)
BuildOutputs(nameNoExt, fmts) ==
  IF fmts = <<>> THEN <<>>
  ELSE OutputsOfToken(nameNoExt, Head(fmts)) \o BuildOutputs(nameNoExt, Tail(fmts))

RECURSIVE BuildWarnings(_, _)
BuildWarnings(src, fmts) ==
  IF fmts = <<>> THEN <<>>
  ELSE WarningsOfToken(src, Head(fmts)) \o BuildWarnings(src, Tail(fmts))

\* line 76
NameNoExt(srcName) == BaseName(srcName, ExtName(srcName))

\* an access check that never finds the output
AccessNeverSucceeds(f, outFile) == FALSE

\* lines 125-126: fs.access(outFile) succeeds
Exists(f, outFile) == f[outFile] # Absent

\* the dry-run test made before the test of the existing output
DecideDryRunFirst(o, f, outFile) ==
  IF o.dryRun THEN "dry-run"
  ELSE IF ~o.overwrite /\ Exists(f, outFile) THEN "skipped-exists"
  ELSE "written"

\* lines 124-145: what the loop does with one OutputSpec
Decide(o, f, outFile) ==
  IF ~o.overwrite /\ Exists(f, outFile) THEN "skipped-exists"
  ELSE IF o.dryRun THEN "dry-run"
  ELSE "written"

\* lines 128-133, 138-143, 148-153
Result(src, out, status) ==
  [src |-> src.name, out |-> out.outFile, fmt |-> out.fmt, status |-> status]

\* line 146: fn(work.clone()) or toFile throws
EncodeFails(src, out) == src.failFmt = out.fmt

\* line 147: img.toFile(outFile)
ToFile(f, src, out, w) ==
  [f EXCEPT ![out.outFile] =
     [src |-> src.name, fmt |-> out.fmt, resized |-> w.resized]]

\* a catch block that removes the outputs written for the failing file
RollBack(f, log, i) ==
  [p \in DOMAIN f |->
     IF \E k \in 1..Len(log) :
          log[k].fi = i /\ log[k].r.out = p /\ log[k].r.status = "written"
     THEN Absent ELSE f[p]]

\* lines 185-190: the catch block logs and does nothing to the output files
OnError(f, log, i) == f

\* an error that ends the loop over the files
AbortAfterError(i, fl) == Len(fl) + 1

\* lines 181-191: after the catch block the loop goes on with the next file
NextAfterError(i, fl) == i + 1

\* lines 193-197
CountStatus(rs, status) ==
  Cardinality({i \in 1..Len(rs) : rs[i].status = status})

-----------------------------------------------------------------------------
(* The directories main is checked on *)

MaxFiles == 3
MaxRuns == 2

W800 == Num(800)
W1600 == Num(1600)
W2000 == Num(2000)

NameA1 == <<"a", ".", "p", "n", "g">>
NameA2 == <<"a", ".", "j", "p", "g">>
NameB == <<"b", ".", "J", "P", "G">>
NameC == <<"c", ".", "t", "x", "t">>

SourceEntry(n, w, d, ff) ==
  [name |-> n, isDir |-> FALSE, width |-> w, decodes |-> d, failFmt |-> ff]

OutputDirEntry ==
  [name |-> OUTPUT_SUBDIR, isDir |-> TRUE, width |-> Undefined,
   decodes |-> FALSE, failFmt |-> NoFormat]

SourcePool ==
  {SourceEntry(NameA1, W800, TRUE, NoFormat),
   SourceEntry(NameA1, Undefined, FALSE, NoFormat),
   SourceEntry(NameA2, W2000, TRUE, NoFormat),
   SourceEntry(NameA2, W2000, TRUE, TokJpeg),
   SourceEntry(NameB, W1600, TRUE, NoFormat),
   SourceEntry(NameB, Undefined, TRUE, NoFormat),
   SourceEntry(NameC, Undefined, FALSE, NoFormat)}

RECURSIVE Directories(_)
Directories(n) ==
  IF n = 0 THEN {<<>>}
  ELSE LET shorter == Directories(n - 1)
       IN  shorter \cup
           {Append(d, e) : d \in shorter, e \in SourcePool} 

DistinctNames(d) ==
  \A i, j \in 1..Len(d) : d[i].name = d[j].name => i = j

OutNames ==
  {NameNoExt(e.name) \o x : e \in {s \in SourcePool : isImageFile(s.name)},
                            x \in {ExtWebp, ExtJpg, ExtPng}}

OldContent == [src |-> <<>>, fmt |-> <<>>, resized |-> FALSE]

PreExisting ==
  {{}, {<<"a">> \o ExtWebp, <<"b">> \o ExtJpg}}

ValJpegJpg == <<"j", "p", "e", "g", ",", "j", "p", "g">>
ValPngBmpJpg == <<"P", "N", "G", ",", "b", "m", "p", ",", " ", "j", "p", "g">>
Val500 == <<"5", "0", "0">>

CommandLines ==
  {<<>>, <<ArgDryRun>>, <<ArgOverwrite>>, <<ArgDryRun, ArgOverwrite>>,
   <<PrefFormats \o ValJpegJpg>>,
   <<ArgOverwrite, PrefFormats \o ValJpegJpg>>,
   <<PrefFormats \o ValPngBmpJpg>>,
   <<ArgDryRun, PrefFormats \o ValPngBmpJpg>>,
   <<PrefMaxWidth \o Val500>>}

OutDirExists(dir) == \E i \in 1..Len(dir) : dir[i] = OutputDirEntry

Init ==
  /\ argv \in {<<NodePath, ScriptPath>> \o a : a \in CommandLines}
  /\ dirExists \in BOOLEAN
  /\ outDir \in BOOLEAN
  /\ dirExists = FALSE => outDir = FALSE
  /\ \E d \in {x \in Directories(MaxFiles) : DistinctNames(x)} :
       /\ dirExists = FALSE => d = <<>>
       /\ entries = IF outDir THEN <<OutputDirEntry>> \o d ELSE d
  /\ \E pre \in PreExisting :
       /\ outDir = FALSE => pre = {}
       /\ fs = [p \in OutNames |-> IF p \in pre THEN OldContent ELSE Absent]
  /\ pc = "start"
  /\ opts = None
  /\ files = <<>>
  /\ fi = 1
  /\ work = None
  /\ outputs = <<>>
  /\ oi = 1
  /\ results = <<>>
  /\ allResults = <<>>
  /\ warnings = <<>>
  /\ errors = <<>>
  /\ lines = <<>>
  /\ summary = None
  /\ exitCode = Running
  /\ writeLog = <<>>
  /\ statusLog = <<>>
  /\ fsStart = fs
  /\ run = 1
  /\ prevLog = <<>>

-----------------------------------------------------------------------------
(* main *)

\* lines 162-167: the images directory is missing
MissingImagesDir ==
  /\ pc = "access"
  /\ ~dirExists
  /\ errors' = Append(errors, <<>>)
  /\ exitCode' = "1"
  /\ pc' = "exit"
  /\ UNCHANGED <<argv, dirExists, outDir, entries, fs, opts, files, fi, work,
                 outputs, oi, results, allResults, warnings, lines, summary,
                 writeLog, statusLog, fsStart, run, prevLog>>

\* lines 162-169: the images directory is there; ensureDir(OUTPUT_DIR)
EnsureDir ==
  /\ pc = "access"
  /\ dirExists
  /\ outDir' = TRUE
  /\ entries' = IF outDir THEN entries ELSE Append(entries, OutputDirEntry)
  /\ pc' = "list"
  /\ UNCHANGED <<argv, dirExists, fs, opts, files, fi, work, outputs, oi,
                 results, allResults, warnings, errors, lines, summary,
                 exitCode, writeLog, statusLog, fsStart, run, prevLog>>

\* lines 171-175: no candidate file
NoImagesFound ==
  /\ pc = "list"
  /\ listImageFiles(entries) = <<>>
  /\ files' = <<>>
  /\ exitCode' = "0"
  /\ pc' = "exit"
  /\ UNCHANGED <<argv, dirExists, outDir, entries, fs, opts, fi, work, outputs,
                 oi, results, allResults, warnings, errors, lines, summary,
                 writeLog, statusLog, fsStart, run, prevLog>>

\* lines 171-180: the candidate files
FoundImages ==
  /\ pc = "list"
  /\ listImageFiles(entries) # <<>>
  /\ files' = listImageFiles(entries)
  /\ fi' = 1
  /\ allResults' = <<>>
  /\ pc' = "loop"
  /\ UNCHANGED <<argv, dirExists, outDir, entries, fs, opts, work, outputs, oi,
                 results, warnings, errors, lines, summary, exitCode, writeLog,
                 statusLog, fsStart, run, prevLog>>

\* lines 78-81, 185-190: metadata() throws, main catches
DecodeFail ==
  /\ pc = "loop"
  /\ fi <= Len(files)
  /\ ~files[fi].decodes
  /\ errors' = Append(errors, files[fi].name)
  /\ fs' = OnError(fs, statusLog, fi)
  /\ fi' = NextAfterError(fi, files)
  /\ UNCHANGED <<argv, dirExists, outDir, entries, pc, opts, files, work,
                 outputs, oi, results, allResults, warnings, lines, summary,
                 exitCode, writeLog, statusLog, fsStart, run, prevLog>>

\* lines 75-122: the pipeline, the OutputSpecs and the warnings of a file
Prepare ==
  /\ pc = "loop"
  /\ fi <= Len(files)
  /\ files[fi].decodes
  /\ work' = Pipeline(files[fi], opts)
  /\ outputs' = BuildOutputs(NameNoExt(files[fi].name), opts.formats)
  /\ warnings' = warnings \o BuildWarnings(files[fi].name, opts.formats)
  /\ results' = <<>>
  /\ oi' = 1
  /\ pc' = "fanout"
  /\ UNCHANGED <<argv, dirExists, outDir, entries, fs, opts, files, fi,
                 allResults, errors, lines, summary, exitCode, writeLog,
                 statusLog, fsStart, run, prevLog>>

Push(status) ==
  /\ results' = Append(results, Result(files[fi], outputs[oi], status))
  /\ statusLog' = Append(statusLog,
                    [fi |-> fi, oi |-> oi,
                     r |-> Result(files[fi], outputs[oi], status)])
  /\ oi' = oi + 1

\* lines 124-136
SkipExists ==
  /\ pc = "fanout"
  /\ oi <= Len(outputs)
  /\ Decide(opts, fs, outputs[oi].outFile) = "skipped-exists"
  /\ Push("skipped-exists")
  /\ UNCHANGED <<argv, dirExists, outDir, entries, fs, pc, opts, files, fi,
                 work, outputs, allResults, warnings, errors, lines, summary,
                 exitCode, writeLog, fsStart, run, prevLog>>

\* lines 137-145
DryRun ==
  /\ pc = "fanout"
  /\ oi <= Len(outputs)
  /\ Decide(opts, fs, outputs[oi].outFile) = "dry-run"
  /\ Push("dry-run")
  /\ UNCHANGED <<argv, dirExists, outDir, entries, fs, pc, opts, files, fi,
                 work, outputs, allResults, warnings, errors, lines, summary,
                 exitCode, writeLog, fsStart, run, prevLog>>

\* lines 146-153
WriteFile ==
  /\ pc = "fanout"
  /\ oi <= Len(outputs)
  /\ Decide(opts, fs, outputs[oi].outFile) = "written"
  /\ ~EncodeFails(files[fi], outputs[oi])
  /\ fs' = ToFile(fs, files[fi], outputs[oi], work)
  /\ writeLog' = Append(writeLog, outputs[oi].outFile)
  /\ Push("written")
  /\ UNCHANGED <<argv, dirExists, outDir, entries, pc, opts, files, fi, work,
                 outputs, allResults, warnings, errors, lines, summary,
                 exitCode, fsStart, run, prevLog>>

\* lines 146-147, 185-190: the encoding throws, main catches; the results of
\* the file are those of processImage, which did not return
EncodeFail ==
  /\ pc = "fanout"
  /\ oi <= Len(outputs)
  /\ Decide(opts, fs, outputs[oi].outFile) = "written"
  /\ EncodeFails(files[fi], outputs[oi])
  /\ errors' = Append(errors, files[fi].name)
  /\ fs' = OnError(fs, statusLog, fi)
  /\ fi' = NextAfterError(fi, files)
  /\ pc' = "loop"
  /\ UNCHANGED <<argv, dirExists, outDir, entries, opts, files, work, outputs,
                 oi, results, allResults, warnings, lines, summary, exitCode,
                 writeLog, statusLog, fsStart, run, prevLog>>

\* lines 156, 183-184: processImage returns, allResults.push(...res)
ReturnResults ==
  /\ pc = "fanout"
  /\ oi > Len(outputs)
  /\ allResults' = allResults \o results
  /\ fi' = fi + 1
  /\ pc' = "loop"
  /\ UNCHANGED <<argv, dirExists, outDir, entries, fs, opts, files, work,
                 outputs, oi, results, warnings, errors, lines, summary,
                 exitCode, writeLog, statusLog, fsStart, run, prevLog>>

\* lines 193-204: the result lines and the summary; main returns
Summarise ==
  /\ pc = "loop"
  /\ fi > Len(files)
  /\ lines' = allResults
  /\ summary' = [written |-> CountStatus(allResults, "written"),
                 skipped |-> CountStatus(allResults, "skipped-exists"),
                 dry |-> CountStatus(allResults, "dry-run")]
  /\ exitCode' = "0"
  /\ pc' = "exit"
  /\ UNCHANGED <<argv, dirExists, outDir, entries, fs, opts, files, fi, work,
                 outputs, oi, results, allResults, warnings, errors, writeLog,
                 statusLog, fsStart, run, prevLog>>

\* the program is run again with the same command line, on the directories
\* as the run before left them
RunAgain ==
  /\ pc = "exit"
  /\ exitCode = "0"
  /\ run < MaxRuns
  /\ run' = run + 1
  /\ prevLog' = statusLog
  /\ fsStart' = fs
  /\ pc' = "start"
  /\ opts' = None
  /\ files' = <<>>
  /\ fi' = 1
  /\ work' = None
  /\ outputs' = <<>>
  /\ oi' = 1
  /\ results' = <<>>
  /\ allResults' = <<>>
  /\ warnings' = <<>>
  /\ errors' = <<>>
  /\ lines' = <<>>
  /\ summary' = None
  /\ exitCode' = Running
  /\ writeLog' = <<>>
  /\ statusLog' = <<>>
  /\ UNCHANGED <<argv, dirExists, outDir, entries, fs>>

Next ==
  \/ ResolveOptions
  \/ MissingImagesDir
  \/ EnsureDir
  \/ NoImagesFound
  \/ FoundImages
  \/ DecodeFail
  \/ Prepare
  \/ SkipExists
  \/ DryRun
  \/ WriteFile
  \/ EncodeFail
  \/ ReturnResults
  \/ Summarise
  \/ RunAgain

Spec == Init /\ [][Next]_vars

-----------------------------------------------------------------------------
(* The claims *)

Last(s) == s[Len(s)]

\* C1: when a run with overwrite=false and dryRun=false is followed by a run
\* of the same command line on the same source files, every OutputSpec
\* (file, position in outputs) whose status was 'written' in the run before
\* has status 'skipped-exists' in this run.
C1_Idempotence ==
  (run > 1 /\ pc = "exit" /\ ~opts.overwrite /\ ~opts.dryRun) =>
    \A k \in 1..Len(prevLog) :
      prevLog[k].r.status = "written" =>
        \E m \in 1..Len(statusLog) :
          /\ statusLog[m].fi = prevLog[k].fi
          /\ statusLog[m].oi = prevLog[k].oi
          /\ statusLog[m].r = [prevLog[k].r EXCEPT !.status = "skipped-exists"]

C1_Witness ==
  /\ run > 1 /\ pc = "exit" /\ ~opts.overwrite /\ ~opts.dryRun
  /\ \E k \in 1..Len(prevLog) : prevLog[k].r.status = "written"
  /\ \E k \in 1..Len(prevLog) : prevLog[k].r.status = "skipped-exists"

\* C2: in a run with dryRun=true the output directory is left as the run
\* found it (no file created, none modified), every OutputSpec the loop has
\* passed got a status, and that status is 'skipped-exists' exactly when
\* overwrite is false and the output path already exists, 'dry-run' otherwise.
C2_DryRunPurity ==
  (pc # "start" /\ opts.dryRun) =>
    /\ fs = fsStart
    /\ writeLog = <<>>
    /\ pc = "fanout" => Len(results) = oi - 1
    /\ \A k \in 1..Len(statusLog) :
         statusLog[k].r.status =
           IF ~opts.overwrite /\ fsStart[statusLog[k].r.out] # Absent
           THEN "skipped-exists" ELSE "dry-run"

C2_Witness ==
  /\ pc = "exit" /\ opts.dryRun /\ ~opts.overwrite
  /\ \E k \in 1..Len(statusLog) : statusLog[k].r.status = "dry-run"
  /\ \E k \in 1..Len(statusLog) : statusLog[k].r.status = "skipped-exists"

\* The run of main on a list of files, as one function: the output directory
\* and the aggregated results it ends with.
RECURSIVE FanOut(_, _, _, _, _, _)
FanOut(src, outs, w, o, f, res) ==
  IF outs = <<>> THEN [fs |-> f, results |-> res]
  ELSE LET out == Head(outs)
           status == Decide(o, f, out.outFile)
       IN  IF status = "written"
           THEN IF EncodeFails(src, out) THEN [fs |-> f, results |-> <<>>]
                ELSE FanOut(src, Tail(outs), w, o, ToFile(f, src, out, w),
                            Append(res, Result(src, out, status)))
           ELSE FanOut(src, Tail(outs), w, o, f,
                       Append(res, Result(src, out, status)))

RECURSIVE RunOn(_, _, _, _)
RunOn(fl, o, f, all) ==
  IF fl = <<>> THEN [fs |-> f, allResults |-> all]
  ELSE LET src == Head(fl)
           r == FanOut(src, BuildOutputs(NameNoExt(src.name), o.formats),
                       Pipeline(src, o), o, f, <<>>)
       IN  IF src.decodes THEN RunOn(Tail(fl), o, r.fs, all \o r.results)
           ELSE RunOn(Tail(fl), o, f, all)

Decodes(e) == e.decodes

\* C3: when a source file fails to decode, the run still visits every
\* candidate file, ends with exit code 0, and leaves the results and the
\* output files that the same run leaves on the directory without the files
\* that fail to decode.
C3_Isolation ==
  (pc = "exit" /\ \E i \in 1..Len(files) : ~files[i].decodes) =>
    LET without == RunOn(SelectSeq(files, Decodes), opts, fsStart, <<>>)
    IN  /\ exitCode = "0"
        /\ fi = Len(files) + 1
        /\ allResults = without.allResults
        /\ lines = without.allResults
        /\ fs = without.fs

C3_Witness ==
  /\ pc = "exit" /\ Len(files) = 3
  /\ ~files[2].decodes
  /\ \A i \in {1, 3} :
       \E k \in 1..Len(lines) :
         lines[k].src = files[i].name /\ lines[k].status = "written"
  /\ exitCode = "0"

IsValidToken(t) == t \in {TokWebp, TokJpeg, TokJpg, TokPng}
IsUnsupportedToken(t) == ~IsValidToken(t)

ExtOfFormat(fmt) ==
  IF fmt = TokWebp THEN ExtWebp ELSE IF fmt = TokPng THEN ExtPng ELSE ExtJpg

\* C4: when processImage reaches its return (no codec or write error), its
\* results are one per valid requested token (webp, jpeg, jpg, png), in
\* request order, 'jpeg' and 'jpg' both as format jpeg with a .jpg name; each
\* unsupported token gave no result and exactly one warning.
C4_FormatFanOut ==
  (pc = "fanout" /\ oi > Len(outputs)) =>
    LET valid == SelectSeq(opts.formats, IsValidToken)
        bad == SelectSeq(opts.formats, IsUnsupportedToken)
        mine == SelectSeq(warnings, LAMBDA w : w.src = files[fi].name)
    IN  /\ Len(results) = Len(valid)
        /\ \A k \in 1..Len(results) :
             /\ results[k].src = files[fi].name
             /\ results[k].fmt =
                  (IF valid[k] = TokJpg THEN TokJpeg ELSE valid[k])
             /\ EndsWith(results[k].out, ExtOfFormat(results[k].fmt))
        /\ Len(mine) = Len(bad)
        /\ \A k \in 1..Len(mine) : mine[k].fmt = bad[k]

C4_Witness ==
  /\ pc = "fanout" /\ oi > Len(outputs)
  /\ Len(opts.formats) = 3
  /\ IsUnsupportedToken(opts.formats[2])
  /\ opts.formats[3] = TokJpg
  /\ Len(results) = 2 /\ results[2].fmt = TokJpeg
  /\ Len(warnings) > 0

\* C5: the resize step is applied if and only if the metadata width is a
\* known positive number that exceeds maxWidth; when it is applied its target
\* width is maxWidth, with no-enlargement and fit-inside options.
C5_NoUpsizing ==
  pc = "fanout" =>
    LET meta == files[fi]
        exceeds == /\ meta.width # Undefined
                   /\ meta.width.num > 0
                   /\ meta.width.num * opts.maxWidth.den
                        > opts.maxWidth.num * meta.width.den
    IN  /\ work.resized <=> exceeds
        /\ work.resized =>
             work.options = [width |-> opts.maxWidth,
                             withoutEnlargement |-> TRUE, fit |-> "inside"]
        /\ ~work.resized => work.options = None

C5_Witness ==
  /\ pc = "fanout" /\ ~work.resized
  /\ files[fi].width = opts.maxWidth
  /\ \E k \in 1..Len(statusLog) :
       /\ statusLog[k].r.status = "written"
       /\ fs[statusLog[k].r.out] # Absent
       /\ fs[statusLog[k].r.out].resized

\* C6: parseArgs returns a Configuration whose maxWidth is a positive
\* integer and whose quality is an integer between 1 and 100.
C6_ConfigurationInRange ==
  pc = "access" =>
    /\ IsInteger(opts.maxWidth) /\ opts.maxWidth.num > 0
    /\ IsInteger(opts.quality) /\ opts.quality.num \in 1..100

IsFormatsArg(a) == StartsWith(a, PrefFormats)

\* C7: a --formats argument whose list holds no token once split on commas
\* and trimmed is ignored (formats stay [webp, jpeg]); otherwise formats is
\* the list of its tokens, trimmed and lower-cased, in the given order.
C7_EmptyFormatsIgnored ==
  (pc = "access" /\ Len(SelectSeq(Slice2(argv), IsFormatsArg)) = 1) =>
    LET arg == SelectSeq(Slice2(argv), IsFormatsArg)[1]
        given == SubSeq(arg, Len(PrefFormats) + 1, Len(arg))
        parts == Split(given, ",")
        tokens == SelectSeq([i \in 1..Len(parts) |-> Trim(parts[i])], NonEmpty)
    IN  opts.formats =
          IF tokens = <<>> THEN DefaultOpts.formats
          ELSE [i \in 1..Len(tokens) |-> ToLowerCase(tokens[i])]

\* C8: when a file fails while encoding one of its formats, the step leaves
\* every output file as it was, the outputs written for the earlier formats
\* of that file are on disk with what was written, and the loop goes on with
\* the next source file.
C8_NoRollback ==
  [][(pc = "fanout" /\ Len(errors') = Len(errors) + 1) =>
       /\ fs' = fs
       /\ \A k \in 1..Len(statusLog) :
            (statusLog[k].fi = fi /\ statusLog[k].r.status = "written") =>
              fs'[statusLog[k].r.out] =
                [src |-> files[fi].name, fmt |-> statusLog[k].r.fmt,
                 resized |-> work.resized]
       /\ pc' = "loop"
       /\ fi' = fi + 1]_vars

C8_Witness ==
  /\ pc = "loop" /\ fi > 1 /\ fi <= Len(files)
  /\ errors # <<>> /\ Last(errors) = files[fi - 1].name
  /\ \E k \in 1..Len(statusLog) :
       /\ statusLog[k].fi = fi - 1
       /\ statusLog[k].r.status = "written"
       /\ fs[statusLog[k].r.out] # Absent

\* C9: at the end of a run the result lines hold one 'written' line per
\* output file written during the run, and the summary's written count is
\* the number of output files written during the run.
C9_NoResultLost ==
  (pc = "exit" /\ files # <<>>) =>
    /\ summary.written = Len(writeLog)
    /\ CountStatus(lines, "written") = Len(writeLog)
    /\ \A k \in 1..Len(writeLog) :
         \E m \in 1..Len(lines) :
           lines[m].out = writeLog[k] /\ lines[m].status = "written"

\* C10: within a run no output path is written more than once.
C10_NoOutputWrittenTwice ==
  \A i, j \in 1..Len(writeLog) : writeLog[i] = writeLog[j] => i = j

====
